---- MODULE Spec2Model ----
(***************************************************************************)
(* Model of finder.py (LOLDrivers_finder): the conditional-fetch cache     *)
(* (check_data_changed, load_json, save_json, main) and the driver filter  *)
(* (process_data).                                                         *)
(*                                                                         *)
(* Two specifications share the module:                                    *)
(*   Spec        the cache fetcher, run repeatedly against a remote        *)
(*               resource that may change version between any two requests *)
(*   SpecFilter  one pass of process_data over an enumerated input         *)
(***************************************************************************)
EXTENDS Integers, Sequences, FiniteSets, TLC

\* ------------------------------------------------------------------ bounds
\* number of versions the remote resource goes through
MaxVer == 2
\* number of driver records in a dataset
MaxDrivers == 2
\* number of samples in a dataset, over all its drivers
MaxSamples == 2

\* ------------------------------------------------------- python / json values
\* Python values of a header field: None or a str
PyNone == <<"None">>
PyStr(s) == <<"str", s>>
\* the header strings the remote may send
HeaderStrings == {"a"}
HeaderValue == {PyNone} \cup {PyStr(s) : s \in HeaderStrings}

\* response.headers.get("ETag"), response.headers.get("Last-Modified")
CurrentHeaders(etag, lm) == [ETag |-> etag, LastModified |-> lm]
CacheHeaders == {CurrentHeaders(e, l) : e, l \in HeaderValue}

\* json.dump / json.load of one header field: None <-> null, str <-> string
JsonNull == <<"null">>
JsonString(s) == <<"string", s>>
json_dump_value(v) == IF v = PyNone THEN JsonNull ELSE JsonString(v[2])
\* mutant of json_load_value: null is read back as the string "null"
json_load_value_null_as_str(j) == IF j = JsonNull THEN PyStr("null") ELSE PyStr(j[2])
json_load_value(j) == IF j = JsonNull THEN PyNone ELSE PyStr(j[2])
json_dump_headers(h) ==
    [ETag |-> json_dump_value(h.ETag), LastModified |-> json_dump_value(h.LastModified)]
json_load_headers(t) ==
    [ETag |-> json_load_value(t.ETag), LastModified |-> json_load_value(t.LastModified)]

\* a file on disk: absent, present with unparsable content, or present with JSON text
NoHeaders == json_dump_headers(CurrentHeaders(PyNone, PyNone))
Absent(none) == [st |-> "absent", val |-> none]
Corrupt(none) == [st |-> "corrupt", val |-> none]
Present(text) == [st |-> "ok", val |-> text]

\* load_json: the parsed document, -1 when the file is absent, -2 when it is not JSON
PyInt(n, none) == [kind |-> "int", int |-> n, obj |-> none]
PyObj(o) == [kind |-> "obj", int |-> 0, obj |-> o]
NotFound == -1
DecodeError == -2
load_json_headers(file) ==
    CASE file.st = "absent" -> PyInt(NotFound, CurrentHeaders(PyNone, PyNone))
      [] file.st = "corrupt" -> PyInt(DecodeError, CurrentHeaders(PyNone, PyNone))
      [] OTHER -> PyObj(json_load_headers(file.val))

\* mutant of HeadersEqual: only the ETag is compared
HeadersEqualETagOnly(current, saved) == saved.kind = "obj" /\ saved.obj.ETag = current.ETag
\* current_headers == saved_headers (a dict never equals an int)
HeadersEqual(current, saved) == saved.kind = "obj" /\ saved.obj = current

\* ------------------------------------------------------------------- state
VARIABLES
    versions,        \* remote resource: the validation headers of versions 1..Len
    dataFile,        \* the dataset file (file_name); val = version of the stored body
    hdrFile,         \* the headers file (headers_file); val = JSON text
    pc,              \* position of main
    saved_headers,   \* check_data_changed local
    current_headers, \* check_data_changed local
    data,            \* check_data_changed local: the parsed body (its version)
    result,          \* return value of check_data_changed: "none", "true", "false"
    run,             \* history of the current run (what was requested, what failed)
    prev,            \* history of the previous run
    drivers_data,    \* process_data parameter: what load_json(file_name) returned
    functions_arg,   \* process_data parameter functions_list, as passed
    functions_list,  \* process_data local functions_list, after line 79-80
    processed_data,  \* process_data local: the output mapping, in insertion order
    fpc,             \* position of process_data
    di,              \* index of the driver the outer loop is at
    si,              \* index of the sample the inner loop is at
    qualified,       \* history: the <<di, si>> whose sample passed the test of line 87-90
    outFile          \* the <name>_processed.json file: "absent", "written", "broken"

fetchVars == <<versions, dataFile, hdrFile, pc, saved_headers, current_headers, data, result,
               run, prev>>
filterVars == <<drivers_data, functions_arg, functions_list, processed_data, fpc, di, si,
                qualified, outFile>>
vars == <<fetchVars, filterVars>>

Remote == Len(versions)

\* what the current run has done so far
NoRun ==
    [startData |-> Absent(0), startHdr |-> Absent(NoHeaders),
     probe |-> "none",      \* "none", "ok", "error_status", "raised"
     fetch |-> "none",      \* "none", "ok", "failed"
     saveData |-> "none",   \* "none" or the outcome of save_json(data, file_name)
     saveHdr |-> "none"]    \* "none" or the outcome of save_json(current_headers, ...)

\* what the previous run probed, and whether the cache was touched since it ended
NoPrev == [probed |-> FALSE, probe |-> CurrentHeaders(PyNone, PyNone), touched |-> FALSE]

\* the cache before the first run: nothing fetched yet
FetchIdle ==
    /\ dataFile = Absent(0)
    /\ hdrFile = Absent(NoHeaders)
    /\ saved_headers = PyInt(NotFound, CurrentHeaders(PyNone, PyNone))
    /\ current_headers = CurrentHeaders(PyNone, PyNone)
    /\ data = 0
    /\ result = "none"
    /\ run = NoRun
    /\ prev = NoPrev

\* process_data not entered
FilterIdle ==
    /\ drivers_data = PyInt(NotFound, <<>>)
    /\ functions_arg = [given |-> FALSE, groups |-> <<>>]
    /\ functions_list = <<>>
    /\ processed_data = <<>>
    /\ fpc = "idle"
    /\ di = 0
    /\ si = 0
    /\ qualified = {}
    /\ outFile = "absent"

Init ==
    /\ versions \in {<<h>> : h \in CacheHeaders}
    /\ pc = "idle"
    /\ FetchIdle
    /\ FilterIdle

\* ---------------------------------------------------------------- save_json
\* save_json(data, file_path): open(file_path, "w") truncates, json.dump writes.
\* Any exception is caught and logged, and the function returns False:
\*   "open_fails"  open() raised: the file is as it was
\*   "write_fails" the write raised after the truncation: the file holds a
\*                 proper prefix of a JSON document, which is not JSON
SaveOutcomes == {"ok", "open_fails", "write_fails"}
save_json(file, text, outcome, none) ==
    CASE outcome = "ok" -> Present(text)
      [] outcome = "open_fails" -> file
      [] OTHER -> Corrupt(none)

\* ------------------------------------------------------- check_data_changed
\* line 48-50: saved_headers = load_json(headers_file)
LoadSavedHeaders ==
    /\ pc = "idle"
    /\ saved_headers' = load_json_headers(hdrFile)
    /\ run' = [NoRun EXCEPT !.startData = dataFile, !.startHdr = hdrFile]
    /\ pc' = "head"
    /\ UNCHANGED filterVars
    /\ UNCHANGED <<versions, dataFile, hdrFile, current_headers, data, result, prev>>

\* line 58-60: the comparison that follows the probe
Compare(h, how) ==
    /\ current_headers' = h
    /\ run' = [run EXCEPT !.probe = how]
    /\ IF HeadersEqual(h, saved_headers)
         THEN result' = "false" /\ pc' = "ret"
         ELSE result' = result /\ pc' = "get"
    /\ UNCHANGED filterVars
    /\ UNCHANGED <<versions, dataFile, hdrFile, saved_headers, data, prev>>

\* line 52-60: head(api_url) answers with the current version's headers
ProbeOk ==
    /\ pc = "head"
    /\ Compare(versions[Remote], "ok")

\* line 52-60: head(api_url) answers with a non-success status; head() does not
\* raise for it, and the headers of the error response are read like any other
ProbeErrorStatus ==
    /\ pc = "head"
    /\ \E h \in CacheHeaders : Compare(h, "error_status")

\* line 52: head(api_url) raises (connection error, timeout); the call is outside
\* the try block, and main calls check_data_changed outside its try block
ProbeRaises ==
    /\ pc = "head"
    /\ pc' = "raised_cdc"
    /\ run' = [run EXCEPT !.probe = "raised"]
    /\ UNCHANGED filterVars
    /\ UNCHANGED <<versions, dataFile, hdrFile, saved_headers, current_headers, data,
                   result, prev>>

\* line 63-65: get, raise_for_status, response.json() all succeed
FetchOk ==
    /\ pc = "get"
    /\ data' = Remote
    /\ run' = [run EXCEPT !.fetch = "ok"]
    /\ pc' = "save_data"
    /\ UNCHANGED filterVars
    /\ UNCHANGED <<versions, dataFile, hdrFile, saved_headers, current_headers, result, prev>>

\* line 63-65, 69-71: get raises, or the status is not a success, or the body is
\* not JSON: logged, return False
FetchFails ==
    /\ pc = "get"
    /\ run' = [run EXCEPT !.fetch = "failed"]
    /\ result' = "false"
    /\ pc' = "ret"
    /\ UNCHANGED filterVars
    /\ UNCHANGED <<versions, dataFile, hdrFile, saved_headers, current_headers, data, prev>>

\* line 66: save_json(data, file_name); the returned flag is dropped
SaveData ==
    /\ pc = "save_data"
    /\ \E o \in SaveOutcomes :
         /\ dataFile' = save_json(dataFile, data, o, 0)
         /\ run' = [run EXCEPT !.saveData = o]
    /\ pc' = "save_headers"
    /\ UNCHANGED filterVars
    /\ UNCHANGED <<versions, hdrFile, saved_headers, current_headers, data, result, prev>>

\* line 67-68: save_json(current_headers, headers_file); return True
SaveHeaders ==
    /\ pc = "save_headers"
    /\ \E o \in SaveOutcomes :
         /\ hdrFile' = save_json(hdrFile, json_dump_headers(current_headers), o, NoHeaders)
         /\ run' = [run EXCEPT !.saveHdr = o]
    /\ result' = "true"
    /\ pc' = "ret"
    /\ UNCHANGED filterVars
    /\ UNCHANGED <<versions, dataFile, saved_headers, current_headers, data, prev>>

\* ----------------------------------------------------------------------- main
\* line 112-114: drivers_data = load_json(file_name); process_data(drivers_data, ...)
\* load_json hands -1 or -2 to process_data, whose loop over an int raises
\* TypeError; main catches json.JSONDecodeError only
FilterStage ==
    /\ pc = "ret"
    /\ pc' = IF dataFile.st = "ok" THEN "exit" ELSE "raised_filter"
    /\ UNCHANGED filterVars
    /\ UNCHANGED <<versions, dataFile, hdrFile, saved_headers, current_headers, data,
                   result, run, prev>>

\* the process has ended (normally or by an uncaught exception); the program is
\* started again later
Exit ==
    /\ pc \in {"exit", "raised_cdc", "raised_filter"}
    /\ prev' = [probed |-> run.probe \in {"ok", "error_status"}, probe |-> current_headers,
                touched |-> FALSE]
    /\ run' = NoRun
    /\ saved_headers' = PyInt(NotFound, CurrentHeaders(PyNone, PyNone))
    /\ current_headers' = CurrentHeaders(PyNone, PyNone)
    /\ data' = 0
    /\ result' = "none"
    /\ pc' = "idle"
    /\ UNCHANGED filterVars
    /\ UNCHANGED <<versions, dataFile, hdrFile>>

\* ---------------------------------------------------------------- environment
\* the remote resource publishes a new version, at any moment
RemoteChange ==
    /\ Remote < MaxVer
    /\ \E h \in CacheHeaders : versions' = Append(versions, h)
    /\ UNCHANGED filterVars
    /\ UNCHANGED <<dataFile, hdrFile, pc, saved_headers, current_headers, data, result,
                   run, prev>>

\* the dataset file is deleted between two runs
DeleteDataset ==
    /\ pc = "idle"
    /\ dataFile.st # "absent"
    /\ dataFile' = Absent(0)
    /\ prev' = [prev EXCEPT !.touched = TRUE]
    /\ UNCHANGED filterVars
    /\ UNCHANGED <<versions, hdrFile, pc, saved_headers, current_headers, data, result, run>>

\* ------------------------------------------------- properties of the fetcher
\* the probe of the current run was answered (with any status)
Probed == run.probe \in {"ok", "error_status"}
\* check_data_changed has returned
Returned == pc \in {"ret", "exit", "raised_filter"}
\* a GET was issued in the current run, or is the next request
GetIssued == run.fetch # "none" \/ pc = "get"
\* the CacheHeaders value stored in the headers file when the run started
StoredHeaders == json_load_headers(run.startHdr.val)
FilesAsAtStart == dataFile = run.startData /\ hdrFile = run.startHdr

SecondRunSameHeaders ==
    /\ prev.probed
    /\ ~prev.touched
    /\ Probed
    /\ prev.probe = current_headers

\* C2 as claimed: whatever the first run did, the second run of two that probe
\* the same headers issues no GET and leaves both files as the first run left them
IdempotentWhateverFirstRun ==
    (SecondRunSameHeaders /\ Returned) => (run.fetch = "none" /\ FilesAsAtStart)

\* C2 amended: when the first run left the headers file holding the pair it
\* probed, the second run issues no GET, reports unchanged and leaves both files
\* as the first run left them
IdempotentCaching ==
    (SecondRunSameHeaders /\ run.startHdr = Present(json_dump_headers(prev.probe))) =>
        (~GetIssued /\ Returned /\ result = "false" /\ FilesAsAtStart)

\* C2 witness: a second run that found the headers the first run stored, with
\* the dataset of an earlier fetch in place and no header sent by the remote
IdempotentCachingWitness ==
    /\ SecondRunSameHeaders
    /\ run.startHdr = Present(json_dump_headers(prev.probe))
    /\ current_headers = CurrentHeaders(PyNone, PyNone)
    /\ dataFile.st = "ok"
    /\ pc = "ret"

\* C3 as claimed: a failed probe or a failed fetch never raises, and the run
\* returns false with both files as they were
LenientFailure ==
    (run.probe \in {"raised", "error_status"} \/ run.fetch = "failed") =>
        /\ pc # "raised_cdc"
        /\ Returned => (result = "false" /\ FilesAsAtStart)

\* C4 as claimed: a run replaces both files or neither, and a result of true
\* means both were replaced
WrittenTogether ==
    Returned =>
        /\ (run.saveData = "ok") <=> (run.saveHdr = "ok")
        /\ result = "true" => (run.saveData = "ok" /\ run.saveHdr = "ok")

\* C9 as claimed: a run that starts with the dataset file absent issues a GET
MissingDatasetForcesDownload ==
    (Returned /\ run.startData.st = "absent") => run.fetch # "none"

\* C10 as claimed: between runs, when both files exist the headers file holds
\* the headers of the version whose body the dataset file holds
CacheCoherence ==
    (pc = "idle" /\ dataFile.st = "ok" /\ hdrFile.st = "ok") =>
        json_load_headers(hdrFile.val) = versions[dataFile.val]

\* ------------------------------------------------------------- process_data
TERMINATE_FUNCTIONS == <<"ZwTerminateProcess", "NtTerminateProcess">>
OPEN_FUNCTIONS == <<"ZwOpenProcess", "NtOpenProcess">>
\* the default of the parameter desired_keys
desired_keys == <<"filename", "md5">>

Range(q) == {q[i] : i \in 1..Len(q)}

\* key.lower(), on the keys the samples below use
lower(key) ==
    CASE key = "Filename" -> "filename"
      [] key = "MD5" -> "md5"
      [] key = "ImportedFunctions" -> "importedfunctions"
      [] OTHER -> key

\* a dict is a sequence of <<key, value>> in insertion order; d.get(key, default)
dict_get(d, key, default) ==
    IF \E i \in 1..Len(d) : d[i][1] = key
      THEN d[CHOOSE i \in 1..Len(d) : d[i][1] = key][2]
      ELSE default

\* the samples the datasets are built from
SampleA ==
    << <<"ImportedFunctions", <<"ZwOpenProcess", "ZwTerminateProcess">> >>,
       <<"filename", "a.sys">>, <<"md5", "abc">> >>
SampleB ==
    << <<"ImportedFunctions", <<"foo">> >>, <<"Filename", "b.sys">>, <<"MD5", "def">> >>
SampleC ==
    << <<"Filename", "c.sys">>, <<"ImportedFunctions", <<"NtTerminateProcess", "foo">> >> >>
SampleD ==
    << <<"MD5", "123">> >>
SamplePool == {SampleA, SampleB, SampleC, SampleD}

\* an element of the dataset: a mapping (Id is driver.get("Id"), None when the
\* key is missing; hasSamples says whether KnownVulnerableSamples is a key), or
\* something that is not a mapping
Driver(id, has, samples) == [mapping |-> TRUE, Id |-> id, hasSamples |-> has, samples |-> samples]
NotADriver == [mapping |-> FALSE, Id |-> PyNone, hasSamples |-> FALSE, samples |-> <<>>]
DriverIds == {PyStr("D1"), PyNone}
SampleLists(n) == UNION {[1..k -> SamplePool] : k \in 0..n}
Drivers(budget) ==
    {Driver(id, TRUE, ss) : id \in DriverIds, ss \in SampleLists(budget)}
      \cup {Driver(id, FALSE, <<>>) : id \in DriverIds}
      \cup {NotADriver}
RECURSIVE Datasets(_, _)
Datasets(k, budget) ==
    IF k = 0 THEN {<<>>}
    ELSE LET rest == [b \in 0..budget |-> Datasets(k - 1, b)]
         IN {<<>>} \cup
            UNION {{<<d>> \o r : r \in rest[budget - Len(d.samples)]} :
                      d \in Drivers(budget)}

\* what main hands to process_data: load_json's -1 or -2, or the parsed list
DriversDataInputs(maxDrivers, maxSamples) ==
    {PyInt(NotFound, <<>>), PyInt(DecodeError, <<>>)}
      \cup {PyObj(ds) : ds \in Datasets(maxDrivers, maxSamples)}

\* the functions_list arguments tried: None, and lists of 0, 1, 2 and 3 groups
FunctionsNone == [given |-> FALSE, groups |-> <<>>]
FunctionsGiven(groups) == [given |-> TRUE, groups |-> groups]
FunctionsArgs ==
    {FunctionsNone,
     FunctionsGiven(<<>>),
     FunctionsGiven(<< <<"foo">> >>),
     FunctionsGiven(<< <<"foo">>, <<"NtTerminateProcess", "ZwOpenProcess">> >>),
     FunctionsGiven(<< <<>>, <<"foo">> >>),
     FunctionsGiven(<< <<"foo">>, <<"NtTerminateProcess">>, <<"bar", "foo">> >>)}

\* mutant of default_functions_list: only a missing argument gets the default
default_only_for_none(arg) ==
    IF ~arg.given THEN <<TERMINATE_FUNCTIONS, OPEN_FUNCTIONS>> ELSE arg.groups
\* line 79-80
default_functions_list(arg) ==
    IF ~arg.given \/ Len(arg.groups) < 2
      THEN <<TERMINATE_FUNCTIONS, OPEN_FUNCTIONS>>
      ELSE arg.groups

\* line 85: driver.get("KnownVulnerableSamples", [])
driver_samples(driver) == IF driver.hasSamples THEN driver.samples ELSE <<>>

\* line 86: set(sample.get("ImportedFunctions", []))
imported_functions(sample) == Range(dict_get(sample, "ImportedFunctions", <<>>))

\* mutant of all_any: one satisfied group is enough
any_any(imported, flist) ==
    \E g \in 1..Len(flist) : \E f \in 1..Len(flist[g]) : flist[g][f] \in imported
\* line 87-90: all(any(func in imported_functions for func in func_list) for func_list in ...)
all_any(imported, flist) ==
    \A g \in 1..Len(flist) : \E f \in 1..Len(flist[g]) : flist[g][f] \in imported

\* processed_data is a dict: a sequence of [id, fields] in insertion order
Keys(pd) == {pd[i].id : i \in 1..Len(pd)}
IndexOf(pd, id) == CHOOSE i \in 1..Len(pd) : pd[i].id = id
\* line 93: {dk : [] for dk in desired_keys}
empty_entry(id) == [id |-> id, fields |-> [dk \in Range(desired_keys) |-> <<>>]]
\* line 92-93
ensure_entry(pd, id) == IF id \in Keys(pd) THEN pd ELSE Append(pd, empty_entry(id))

\* line 94-97: for key in sample, from the k-th key on
RECURSIVE append_fields(_, _, _, _)
append_fields(pd, id, sample, k) ==
    IF k > Len(sample) THEN pd
    ELSE LET lowered_key == lower(sample[k][1])
             i == IndexOf(pd, id)
         IN IF lowered_key \in Range(desired_keys)
              THEN append_fields(
                     [pd EXCEPT ![i].fields[lowered_key] = Append(@, sample[k][2])],
                     id, sample, k + 1)
              ELSE append_fields(pd, id, sample, k + 1)

\* line 79-84: the default filter, the empty output; iterating an int raises TypeError
Begin ==
    /\ fpc = "call"
    /\ functions_list' = default_functions_list(functions_arg)
    /\ processed_data' = <<>>
    /\ IF drivers_data.kind = "int"
         THEN fpc' = "raised" /\ di' = di
         ELSE fpc' = "driver" /\ di' = 1
    /\ UNCHANGED <<drivers_data, functions_arg, si, qualified, outFile>>
    /\ UNCHANGED fetchVars

\* line 84-85: the next driver is a mapping; its sample list, [] when the key is missing
EnterDriver ==
    /\ fpc = "driver"
    /\ di <= Len(drivers_data.obj)
    /\ drivers_data.obj[di].mapping
    /\ si' = 1
    /\ fpc' = "sample"
    /\ UNCHANGED <<drivers_data, functions_arg, functions_list, processed_data, di,
                   qualified, outFile>>
    /\ UNCHANGED fetchVars

\* line 85: the next element has no get method: AttributeError
DriverRaises ==
    /\ fpc = "driver"
    /\ di <= Len(drivers_data.obj)
    /\ ~drivers_data.obj[di].mapping
    /\ fpc' = "raised"
    /\ UNCHANGED <<drivers_data, functions_arg, functions_list, processed_data, di, si,
                   qualified, outFile>>
    /\ UNCHANGED fetchVars

\* mutant of VisitSample: the driver's entry is created before the test
VisitSampleEntryFirst ==
    /\ fpc = "sample"
    /\ si <= Len(driver_samples(drivers_data.obj[di]))
    /\ LET driver == drivers_data.obj[di]
           sample == driver_samples(driver)[si]
       IN /\ processed_data' = ensure_entry(processed_data, driver.Id)
          /\ IF all_any(imported_functions(sample), functions_list)
               THEN /\ qualified' = qualified \cup {<<di, si>>}
                    /\ fpc' = "fields"
                    /\ si' = si
               ELSE /\ si' = si + 1
                    /\ UNCHANGED <<qualified, fpc>>
    /\ UNCHANGED <<drivers_data, functions_arg, functions_list, di, outFile>>
    /\ UNCHANGED fetchVars

\* line 86-93: the test of one sample, and the creation of the driver's entry
VisitSample ==
    /\ fpc = "sample"
    /\ si <= Len(driver_samples(drivers_data.obj[di]))
    /\ LET driver == drivers_data.obj[di]
           sample == driver_samples(driver)[si]
       IN IF all_any(imported_functions(sample), functions_list)
            THEN /\ processed_data' = ensure_entry(processed_data, driver.Id)
                 /\ qualified' = qualified \cup {<<di, si>>}
                 /\ fpc' = "fields"
                 /\ si' = si
            ELSE /\ si' = si + 1
                 /\ UNCHANGED <<processed_data, qualified, fpc>>
    /\ UNCHANGED <<drivers_data, functions_arg, functions_list, di, outFile>>
    /\ UNCHANGED fetchVars

\* line 94-97: the fields of a sample that passed
AppendFields ==
    /\ fpc = "fields"
    /\ LET driver == drivers_data.obj[di]
           sample == driver_samples(driver)[si]
       IN processed_data' = append_fields(processed_data, driver.Id, sample, 1)
    /\ si' = si + 1
    /\ fpc' = "sample"
    /\ UNCHANGED <<drivers_data, functions_arg, functions_list, di, qualified, outFile>>
    /\ UNCHANGED fetchVars

\* line 85: the inner loop is over
SamplesDone ==
    /\ fpc = "sample"
    /\ si > Len(driver_samples(drivers_data.obj[di]))
    /\ di' = di + 1
    /\ fpc' = "driver"
    /\ UNCHANGED <<drivers_data, functions_arg, functions_list, processed_data, si,
                   qualified, outFile>>
    /\ UNCHANGED fetchVars

\* line 84, 99-100: the outer loop is over; return processed_data
Return ==
    /\ fpc = "driver"
    /\ di > Len(drivers_data.obj)
    /\ fpc' = "returned"
    /\ UNCHANGED <<drivers_data, functions_arg, functions_list, processed_data, di, si,
                   qualified, outFile>>
    /\ UNCHANGED fetchVars

\* main, line 115-120: a non-empty result is saved to <name>_processed.json
SaveProcessed ==
    /\ fpc = "returned"
    /\ IF processed_data # <<>>
         THEN \E o \in SaveOutcomes :
                outFile' = CASE o = "ok" -> "written"
                             [] o = "open_fails" -> outFile
                             [] OTHER -> "broken"
         ELSE outFile' = outFile
    /\ fpc' = "exit"
    /\ UNCHANGED <<drivers_data, functions_arg, functions_list, processed_data, di, si,
                   qualified>>
    /\ UNCHANGED fetchVars

\* process_data is called with one of the inputs
FilterInit ==
    /\ versions = <<CurrentHeaders(PyNone, PyNone)>>
    /\ pc = "process_data"
    /\ FetchIdle
    /\ drivers_data \in DriversDataInputs(MaxDrivers, MaxSamples)
    /\ functions_arg \in FunctionsArgs
    /\ functions_list = <<>>
    /\ processed_data = <<>>
    /\ fpc = "call"
    /\ di = 0
    /\ si = 0
    /\ qualified = {}
    /\ outFile = "absent"

FilterNext ==
    \/ Begin
    \/ EnterDriver
    \/ DriverRaises
    \/ VisitSample
    \/ AppendFields
    \/ SamplesDone
    \/ Return
    \/ SaveProcessed

SpecFilter == FilterInit /\ [][FilterNext]_vars

\* -------------------------------------------------- properties of the filter
\* the <<driver, sample>> positions of the dataset
Positions ==
    {p \in (1..Len(drivers_data.obj)) \X (1..MaxSamples) :
        p[2] <= Len(driver_samples(drivers_data.obj[p[1]]))}
SampleAt(p) == driver_samples(drivers_data.obj[p[1]])[p[2]]
\* the positions the loops have been through
Visited ==
    {p \in Positions :
        \/ p[1] < di
        \/ p[1] = di /\ fpc \in {"sample", "fields"} /\ p[2] < si
        \/ p[1] = di /\ fpc = "fields" /\ p[2] = si}
PassOver == fpc \in {"returned", "exit"}

\* the FilterSpec in force: the argument when it has two groups or more, the two
\* default groups otherwise; each group a set of names
DefaultGroups ==
    <<{"ZwTerminateProcess", "NtTerminateProcess"}, {"ZwOpenProcess", "NtOpenProcess"}>>
EffectiveFilterSpec ==
    IF functions_arg.given /\ Len(functions_arg.groups) >= 2
      THEN [g \in 1..Len(functions_arg.groups) |-> Range(functions_arg.groups[g])]
      ELSE DefaultGroups
\* the sample's ImportedFunctions meet every group of the FilterSpec
Satisfies(sample, spec) ==
    \A g \in 1..Len(spec) : imported_functions(sample) \cap spec[g] # {}

\* C5: after a pass, the samples that contributed to the output are those whose
\* ImportedFunctions meet every group of the effective FilterSpec
FilterSemantics ==
    PassOver => qualified = {p \in Positions : Satisfies(SampleAt(p), EffectiveFilterSpec)}

\* C5 witness: a pass under a supplied FilterSpec of two groups, with one sample
\* that contributed and one that did not
FilterSemanticsWitness ==
    /\ PassOver
    /\ functions_arg.given
    /\ Len(functions_arg.groups) = 2
    /\ qualified # {}
    /\ qualified # Positions

\* C6 as claimed: under a FilterSpec of zero groups every sample qualifies, and
\* every driver with a sample is a key of the output
EmptySpecQualifiesAll ==
    (PassOver /\ functions_arg.given /\ functions_arg.groups = <<>>) =>
        /\ qualified = Positions
        /\ \A p \in Positions : drivers_data.obj[p[1]].Id \in Keys(processed_data)

\* C6 amended: a FilterSpec of zero groups is replaced by the two default
\* groups, so under it a sample qualifies iff it imports a function of each
EmptySpecUsesDefault ==
    (fpc \notin {"idle", "call"} /\ functions_arg.given /\ functions_arg.groups = <<>>) =>
        /\ functions_list = <<TERMINATE_FUNCTIONS, OPEN_FUNCTIONS>>
        /\ PassOver => qualified = {p \in Positions : Satisfies(SampleAt(p), DefaultGroups)}

\* C6 witness: a pass under a FilterSpec of zero groups that left a sample out
EmptySpecUsesDefaultWitness ==
    /\ PassOver
    /\ functions_arg.given
    /\ functions_arg.groups = <<>>
    /\ qualified # {}
    /\ qualified # Positions

\* the dataset is not a sequence of mappings that all have KnownVulnerableSamples
Malformed ==
    \/ drivers_data.kind = "int"
    \/ \E i \in 1..Len(drivers_data.obj) :
         ~drivers_data.obj[i].mapping \/ ~drivers_data.obj[i].hasSamples

\* C7 as claimed: process_data returns no mapping for a malformed dataset
MalformedFailsFast ==
    (fpc # "idle" /\ Malformed) => ~PassOver

\* C8: at every point of a pass, the keys of the output are the identifiers of
\* the drivers with a visited sample that qualified; every entry has a list for
\* each desired field, all empty when the entry has just been created
DriverInclusion ==
    /\ Keys(processed_data) =
         {drivers_data.obj[p[1]].Id :
            p \in {q \in Visited : Satisfies(SampleAt(q), EffectiveFilterSpec)}}
    /\ \A k \in 1..Len(processed_data) :
         /\ DOMAIN processed_data[k].fields = {"filename", "md5"}
         /\ \A l \in 1..Len(processed_data) : processed_data[l].id = processed_data[k].id => l = k
    /\ fpc = "fields" =>
         LET id == drivers_data.obj[di].Id
         IN (\A q \in qualified : q # <<di, si>> => drivers_data.obj[q[1]].Id # id) =>
              processed_data[IndexOf(processed_data, id)].fields =
                 [dk \in {"filename", "md5"} |-> <<>>]

\* C8 witness: a driver's entry has just been created, after a driver with
\* samples of which none qualified
DriverInclusionWitness ==
    /\ fpc = "fields"
    /\ \A q \in qualified : q = <<di, si>>
    /\ \E i \in 1..(di - 1) :
         /\ driver_samples(drivers_data.obj[i]) # <<>>
         /\ drivers_data.obj[i].Id \notin Keys(processed_data)

\* ----------------------------------------------------------- specifications
Next ==
    \/ LoadSavedHeaders
    \/ ProbeOk
    \/ ProbeErrorStatus
    \/ ProbeRaises
    \/ FetchOk
    \/ FetchFails
    \/ SaveData
    \/ SaveHeaders
    \/ FilterStage
    \/ Exit
    \/ RemoteChange
    \/ DeleteDataset

Spec == Init /\ [][Next]_vars

====
